---- MODULE Spec2Model ----
(***************************************************************************)
(* Model of the payments engine in src/main.rs: the account table, the     *)
(* transaction history, process_transaction and the read / emit loops of   *)
(* main.                                                                   *)
(*                                                                         *)
(* An Amount (fixed::types::I50F14) is modelled by its integer bit         *)
(* pattern: the value is bits / 2^14.  A decimal input string with up to   *)
(* four decimal places is modelled by the integer number of                *)
(* ten-thousandths it denotes ("0.1" is 1000, "10.0" is 100000).  All      *)
(* amounts of the model stay far below 2^63, so the 64-bit width of the    *)
(* type is never reached.                                                  *)
(***************************************************************************)
EXTENDS Integers, Sequences, FiniteSets, TLC

\* Bounds of the model.
MaxClient == 2
MaxTx == 2
MaxRecords == 3

\* Number of fractional bits of Amount (I50F14).
FRAC_NBITS == 14

\* ClientId::BITS: the width of a client id (u16).
ClientId_BITS == 16

\* Every value of ClientId.
ClientIds == 0..((2 ^ ClientId_BITS) - 1)

\* The client ids the modelled rows use; `accounts` holds the entries of the
\* account table at these indices.
Clients == 1..MaxClient
TxIds == 1..MaxTx

\* Decimal input amounts of Deposit / Withdrawal rows, in ten-thousandths:
\* "0.1" and "10.0".
DecAmounts == {1000, 100000}

\* The amount column of dispute / resolve / chargeback rows; the engine never
\* reads it in those arms.
NoAmount == {0}

(***************************************************************************)
(* deserialize_fixed: Amount::from_str rounds the decimal to the nearest   *)
(* multiple of 2^-14, ties to even.                                        *)
(***************************************************************************)
\* dec * 2^14 / 10^4 is computed as dec * 2^10 / 625, the same fraction.
deserialize_fixed(dec) ==
    LET scaled == dec * (2 ^ (FRAC_NBITS - 4))
        q == scaled \div 625
        r == scaled % 625
    IN  IF 2 * r > 625 THEN q + 1
        ELSE IF 2 * r < 625 THEN q
        ELSE IF q % 2 = 0 THEN q ELSE q + 1

Amounts == {deserialize_fixed(d) : d \in DecAmounts}

\* Account::default()
DefaultAccount == [locked |-> FALSE, total |-> 0, held |-> 0]

\* Account::available
available(account) == account.total - account.held

\* unused that looks at the balances only.
unused_balances(account) == account.total = 0 /\ account.held = 0

\* Account::unused
unused(account) == account = DefaultAccount

\* OutputRecord::from_account
from_account(account, client) ==
    [client |-> client,
     available |-> available(account),
     held |-> account.held,
     locked |-> account.locked,
     total |-> account.total]

\* get_tx_amount: Option<Amount> as a sequence of length 0 (None) or 1 (Some).
get_tx_amount(history, id) ==
    IF id \in DOMAIN history THEN <<history[id]>> ELSE <<>>

\* The arms of the match in process_transaction.
\* Deposit that a locked account refuses.
Deposit_checks_locked(account, record) ==
    IF account.locked
    THEN account
    ELSE [account EXCEPT !.total = @ + record.amount]

Deposit(account, record) ==
    [account EXCEPT !.total = @ + record.amount]

\* Withdrawal that takes the amount out of held instead of total.
Withdrawal_held(account, record) ==
    IF available(account) >= record.amount
    THEN [account EXCEPT !.held = @ - record.amount]
    ELSE account

\* Withdrawal that compares with total instead of available().
Withdrawal_total(account, record) ==
    IF account.total >= record.amount
    THEN [account EXCEPT !.total = @ - record.amount]
    ELSE account

\* Withdrawal with the comparison written > instead of >=.
Withdrawal_strict(account, record) ==
    IF available(account) > record.amount
    THEN [account EXCEPT !.total = @ - record.amount]
    ELSE account

Withdrawal(account, record) ==
    IF available(account) >= record.amount
    THEN [account EXCEPT !.total = @ - record.amount]
    ELSE account

Dispute(account, found) ==
    IF found # <<>>
    THEN [account EXCEPT !.held = @ + found[1]]
    ELSE account

\* Resolve with the sign of the dispute arm.
Resolve_adds(account, found) ==
    IF found # <<>>
    THEN [account EXCEPT !.held = @ + found[1]]
    ELSE account

Resolve(account, found) ==
    IF found # <<>>
    THEN [account EXCEPT !.held = @ - found[1]]
    ELSE account

\* Chargeback that locks the account whether or not the tx was found.
Chargeback_locks_unknown(account, found) ==
    IF found # <<>>
    THEN [account EXCEPT !.held = @ - found[1],
                         !.total = @ - found[1],
                         !.locked = TRUE]
    ELSE [account EXCEPT !.locked = TRUE]

\* Chargeback that flips the lock instead of setting it.
Chargeback_toggles(account, found) ==
    IF found # <<>>
    THEN [account EXCEPT !.held = @ - found[1],
                         !.total = @ - found[1],
                         !.locked = ~@]
    ELSE account

Chargeback(account, found) ==
    IF found # <<>>
    THEN [account EXCEPT !.held = @ - found[1],
                         !.total = @ - found[1],
                         !.locked = TRUE]
    ELSE account

\* process_transaction indexing the table one entry too far (wrapping).
process_transaction_next_client(accts, record, history) ==
    LET index == (record.client % MaxClient) + 1
        account == accts[index]
        found == get_tx_amount(history, record.tx)
    IN  [accts EXCEPT ![index] =
            CASE record.tx_type = "deposit" -> Deposit(account, record)
              [] record.tx_type = "withdrawal" -> Withdrawal(account, record)
              [] record.tx_type = "dispute" -> Dispute(account, found)
              [] record.tx_type = "resolve" -> Resolve(account, found)
              [] record.tx_type = "chargeback" -> Chargeback(account, found)]

\* process_transaction(accounts, record, get_tx_amount); the closure is the
\* lookup in `history`.
process_transaction(accts, record, history) ==
    LET account == accts[record.client]
        found == get_tx_amount(history, record.tx)
    IN  [accts EXCEPT ![record.client] =
            CASE record.tx_type = "deposit" -> Deposit(account, record)
              [] record.tx_type = "withdrawal" -> Withdrawal(account, record)
              [] record.tx_type = "dispute" -> Dispute(account, found)
              [] record.tx_type = "resolve" -> Resolve(account, found)
              [] record.tx_type = "chargeback" -> Chargeback(account, found)]

\* The rows deposit(1, 1, 10.0), deposit(2, 2, 20.0), withdrawal(1, 3, 5.0).
C15_Scenario ==
    <<[tx_type |-> "deposit", client |-> 1, tx |-> 1, dec |-> 100000],
      [tx_type |-> "deposit", client |-> 2, tx |-> 2, dec |-> 200000],
      [tx_type |-> "withdrawal", client |-> 1, tx |-> 3, dec |-> 50000]>>

\* Two deposits whose clients appear in descending order.
C16_Scenario ==
    <<[tx_type |-> "deposit", client |-> 2, tx |-> 2, dec |-> 100000],
      [tx_type |-> "deposit", client |-> 1, tx |-> 1, dec |-> 100000]>>

\* The input rows the reader can decode: every combination of the modelled
\* ids and amounts.
Rows ==
    [tx_type : {"deposit", "withdrawal"}, client : Clients, tx : TxIds,
     dec : DecAmounts]
    \cup
    [tx_type : {"dispute", "resolve", "chargeback"}, client : Clients,
     tx : TxIds, dec : NoAmount]

\* struct Transaction, as deserialized from a row.
Transaction(row) ==
    [tx_type |-> row.tx_type, client |-> row.client, tx |-> row.tx,
     amount |-> deserialize_fixed(row.dec)]

\* No row: the loop of main has not read one, or has ended.
NoRow == [tx_type |-> "none"]

\* No deposit / dispute pattern at the end of the input read so far.
NoPattern == [stage |-> "none", of |-> "none"]

\* The rows deposit(1, 1, 10.0), dispute(1, 1), chargeback(1, 1).
C3_Scenario ==
    <<[tx_type |-> "deposit", client |-> 1, tx |-> 1, dec |-> 100000],
      [tx_type |-> "dispute", client |-> 1, tx |-> 1, dec |-> 0],
      [tx_type |-> "chargeback", client |-> 1, tx |-> 1, dec |-> 0]>>

VARIABLES
    pc,        \* "reading": in the for loop of main; "done": output written
    accounts,  \* engine.accounts
    txs,       \* engine.txs
    output,    \* the rows handed to the csv writer, in order
    row,       \* the row of the current loop iteration (NoRow outside the loop)
    nread,     \* history variable: the number of rows read
    prev,      \* history variable: engine.accounts before `row` was applied
    pattern,   \* history variable: the rows read last are a deposit, a dispute
               \* (and a resolve or chargeback) of the same client and tx id
    seen,      \* history variable: the client ids of the rows read
    scenario,  \* history variable: k when the rows read are exactly the first
               \* k rows of C3_Scenario, -1 otherwise
    tracked,   \* history variable: the same count for C15_Scenario (c15) and
               \* C16_Scenario (c16)
    probe      \* the index looked at by Probe, whether it is within the
               \* table, and its conversion back to a ClientId

vars ==
    <<pc, accounts, txs, output, row, nread, prev, pattern, seen, scenario,
      tracked, probe>>

\* No index has been looked at.
NoProbe == [index |-> -1]

\* The count k of a scenario S after reading r.
Advance(k, S, r) ==
    IF k >= 0 /\ k < Len(S) /\ r = S[k + 1] THEN k + 1 ELSE -1

\* Engine::new with a table of ClientId::MAX entries.
EngineNew_max ==
    [accounts |-> [c \in Clients |-> DefaultAccount],
     len |-> (2 ^ ClientId_BITS) - 1,
     txs |-> <<>>]

\* Engine::new; len is the length of the account table, 1 << ClientId::BITS.
EngineNew ==
    [accounts |-> [c \in Clients |-> DefaultAccount],
     len |-> 2 ^ ClientId_BITS,
     txs |-> <<>>]

Init ==
    /\ pc = "reading"
    /\ accounts = EngineNew.accounts
    /\ txs = EngineNew.txs
    /\ output = <<>>
    /\ row = NoRow
    /\ nread = 0
    /\ prev = EngineNew.accounts
    /\ pattern = NoPattern
    /\ seen = {}
    /\ scenario = 0
    /\ tracked = [c15 |-> 0, c16 |-> 0]
    /\ probe = NoProbe

\* The pattern after reading `r`: "disputed" when r disputes the deposit or
\* withdrawal read just before it, "resolve" / "chargeback" when r closes such
\* a dispute; `of` is the type of the disputed row, A its amount, `before`
\* the account as it was before the dispute.  "withdrawn" when r is an
\* accepted withdrawal of W, 0 < W <= A, by the client of the deposit of A
\* (tx id tx) read just before it; `before` is then the account as it was
\* before that deposit.
NextPattern(r) ==
    IF /\ r.tx_type = "withdrawal"
       /\ row.tx_type = "deposit"
       /\ row.client = r.client
       /\ Transaction(r).amount > 0
       /\ Transaction(r).amount <= Transaction(row).amount
       /\ Transaction(r).amount <= available(accounts[r.client])
    THEN [stage |-> "withdrawn", of |-> "deposit",
          A |-> Transaction(row).amount, W |-> Transaction(r).amount,
          tx |-> row.tx, before |-> prev[r.client]]
    ELSE
    IF /\ r.tx_type = "dispute"
       /\ row.tx_type \in {"deposit", "withdrawal"}
       /\ row.client = r.client
       /\ row.tx = r.tx
    THEN [stage |-> "disputed", of |-> row.tx_type,
          A |-> Transaction(row).amount, before |-> accounts[r.client]]
    ELSE IF /\ r.tx_type \in {"resolve", "chargeback"}
            /\ pattern.stage = "disputed"
            /\ row.client = r.client
            /\ row.tx = r.tx
    THEN [stage |-> r.tx_type, of |-> pattern.of, A |-> pattern.A,
          before |-> pattern.before]
    ELSE NoPattern

\* The history variables after reading `r`.
Observe(r) ==
    /\ row' = r
    /\ nread' = nread + 1
    /\ prev' = accounts
    /\ pattern' = NextPattern(r)
    /\ seen' = seen \cup {r.client}
    /\ scenario' = IF /\ scenario >= 0
                      /\ scenario < Len(C3_Scenario)
                      /\ r = C3_Scenario[scenario + 1]
                   THEN scenario + 1
                   ELSE -1
    /\ tracked' = [c15 |-> Advance(tracked.c15, C15_Scenario, r),
                   c16 |-> Advance(tracked.c16, C16_Scenario, r)]

\* The loop body recording the amount of every deposit and withdrawal under
\* its tx id.
Step_records_withdrawals(r) ==
    /\ accounts' = process_transaction(accounts, Transaction(r), txs)
    /\ txs' = IF r.tx_type \in {"deposit", "withdrawal"}
              THEN [t \in DOMAIN txs \cup {r.tx} |->
                      IF t = r.tx THEN Transaction(r).amount ELSE txs[t]]
              ELSE txs
    /\ Observe(r)
    /\ UNCHANGED <<pc, output, probe>>

\* One iteration of the for loop of main on one decoded row.
Step(r) ==
    /\ accounts' = process_transaction(accounts, Transaction(r), txs)
    /\ txs' = txs
    /\ Observe(r)
    /\ UNCHANGED <<pc, output, probe>>

\* The rows the input can continue with: any row of Rows, or the next row of
\* the end-to-end scenario C15_Scenario while the input read so far is a
\* prefix of it (its amounts 20.0 and 5.0 and its tx id 3 occur only there).
NextRows ==
    Rows \cup
    (IF tracked.c15 >= 0 /\ tracked.c15 < Len(C15_Scenario)
     THEN {C15_Scenario[tracked.c15 + 1]}
     ELSE {})

ReadRecord ==
    /\ pc = "reading"
    /\ nread < MaxRecords
    /\ \E r \in NextRows : Step(r)

\* The output loop walking the table from its end.
RECURSIVE EmitRows_descending(_, _, _)
EmitRows_descending(accts, lo, hi) ==
    IF lo > hi THEN <<>>
    ELSE IF unused(accts[hi]) THEN EmitRows_descending(accts, lo, hi - 1)
    ELSE <<from_account(accts[hi], hi)>>
           \o EmitRows_descending(accts, lo, hi - 1)

\* The rows of the output loop of main for clients lo..hi, ascending.
RECURSIVE EmitRows(_, _, _)
EmitRows(accts, lo, hi) ==
    IF lo > hi THEN <<>>
    ELSE IF unused(accts[lo]) THEN EmitRows(accts, lo + 1, hi)
    ELSE <<from_account(accts[lo], lo)>> \o EmitRows(accts, lo + 1, hi)

\* End of the input stream: the output loop of main.
Emit ==
    /\ pc = "reading"
    /\ output' = EmitRows(accounts, 1, MaxClient)
    /\ pc' = "done"
    /\ row' = NoRow
    /\ prev' = accounts
    /\ pattern' = NoPattern
    /\ UNCHANGED <<accounts, txs, nread, seen, scenario, tracked, probe>>

Next == ReadRecord \/ Emit

Spec == Init /\ [][Next]_vars

(***************************************************************************)
(* The account table has 2^16 entries, of which `accounts` holds those at  *)
(* the modelled client ids.  Probe looks at one index of the whole table:  *)
(* the index of a first row with any 16-bit client id (accounts[record     *)
(* .client as usize] in process_transaction), or any index the output loop *)
(* enumerates, which it converts back with try_into.                       *)
(***************************************************************************)

\* usize -> u16 try_into: Some(i) as <<i>>, an error as <<>>.
try_into_u16(i) ==
    IF i <= (2 ^ ClientId_BITS) - 1 THEN <<i>> ELSE <<>>

Probe ==
    /\ pc = "reading"
    /\ nread = 0
    /\ \E i \in ClientIds \cup (0..(EngineNew.len - 1)) :
          probe' = [index |-> i,
                    is_client |-> i \in ClientIds,
                    in_bounds |-> i < EngineNew.len,
                    back |-> try_into_u16(i)]
    /\ pc' = "probed"
    /\ UNCHANGED <<accounts, txs, output, row, nread, prev, pattern, seen,
                   scenario, tracked>>

NextTable == ReadRecord \/ Emit \/ Probe

SpecTable == Init /\ [][NextTable]_vars

(***************************************************************************)
(* process_transaction takes its lookup as a parameter (get_tx_amount: impl *)
(* Fn(&TransactionId) -> Option<Amount>).  SpecFn checks it against every  *)
(* lookup over the modelled ids and amounts, not only the one main passes: *)
(* the history is any finite map, the account table starts as Engine::new  *)
(* builds it.  Every behaviour of Spec is a behaviour of SpecFn.           *)
(*                                                                         *)
(* The engine only compares tx ids for equality, so a history is taken up  *)
(* to renaming of ids: its domain is an initial segment of TxIds, and the  *)
(* last id is left unknown so that both outcomes of a lookup occur.        *)
(***************************************************************************)
Histories == UNION {[1..k -> Amounts] : k \in 0..(MaxTx - 1)}

InitFn ==
    /\ pc = "reading"
    /\ accounts = EngineNew.accounts
    /\ txs \in Histories
    /\ output = <<>>
    /\ row = NoRow
    /\ nread = 0
    /\ prev = EngineNew.accounts
    /\ pattern = NoPattern
    /\ seen = {}
    /\ scenario = 0
    /\ tracked = [c15 |-> 0, c16 |-> 0]
    /\ probe = NoProbe

SpecFn == InitFn /\ [][Next]_vars

(***************************************************************************)
(* Properties.  `row` is the row applied last, `prev` the account table    *)
(* before it and `accounts` the table after it.                            *)
(***************************************************************************)

\* The step reads a row.
Reads == nread' = nread + 1

\* C1: a Deposit {c, t, A} increases total of c by exactly A and records
\* (t -> A) in the history, so that a lookup of t returns A afterwards.
C1_DepositRecorded ==
    row.tx_type = "deposit" =>
        LET record == Transaction(row)
            c == record.client
        IN  /\ accounts[c].total = prev[c].total + record.amount
            /\ get_tx_amount(txs, record.tx) = <<record.amount>>

\* C2: a Deposit of A with tx t followed immediately by a Dispute of t on the
\* same client increases held by exactly A and leaves total unchanged.
C2_DepositDisputeHolds ==
    (pattern.stage = "disputed" /\ pattern.of = "deposit") =>
        LET c == row.client
        IN  /\ accounts[c].held = prev[c].held + pattern.A
            /\ accounts[c].total = prev[c].total

\* C3: after Deposit(t, A) and Dispute(t), a Chargeback(t) reduces held and
\* total by exactly A and locks the account; the scenario deposit 10.0,
\* dispute, chargeback from the empty engine emits client 1 with available 0,
\* held 0, total 0, locked true.
C3_ChargebackReverses ==
    /\ (pattern.stage = "chargeback" /\ pattern.of = "deposit") =>
          LET c == row.client
          IN  /\ accounts[c].held = prev[c].held - pattern.A
              /\ accounts[c].total = prev[c].total - pattern.A
              /\ accounts[c].locked
    /\ (pc = "done" /\ scenario = Len(C3_Scenario)) =>
          output = <<[client |-> 1, available |-> 0, held |-> 0, total |-> 0,
                      locked |-> TRUE]>>

\* C4: after Deposit(t, A) and Dispute(t), a Resolve(t) returns held to its
\* value immediately before the dispute, and total is unchanged by the
\* dispute / resolve pair.
C4_ResolveRestoresHeld ==
    (pattern.stage = "resolve" /\ pattern.of = "deposit") =>
        LET c == row.client
        IN  /\ accounts[c].held = pattern.before.held
            /\ accounts[c].total = pattern.before.total

\* A deposit, a dispute that did move held, and the resolve have been applied.
C4_Witness ==
    /\ pattern.stage = "resolve"
    /\ pattern.of = "deposit"
    /\ prev[row.client].held # pattern.before.held

\* C5: a Withdrawal of W is rejected with no change to total, held or locked
\* when W > available(), and otherwise (W = available() included) decreases
\* total by exactly W and leaves held and locked unchanged.
C5_WithdrawalRule ==
    row.tx_type = "withdrawal" =>
        LET c == row.client
            W == Transaction(row).amount
            before == prev[c]
        IN  IF W > available(before)
            THEN accounts[c] = before
            ELSE accounts[c] = [before EXCEPT !.total = before.total - W]

\* A withdrawal of exactly the available funds was accepted on an account
\* whose held is not zero.
C5_Witness ==
    /\ row.tx_type = "withdrawal"
    /\ Transaction(row).amount = available(prev[row.client])
    /\ prev[row.client].held # 0
    /\ accounts[row.client].total
         = prev[row.client].total - Transaction(row).amount

\* C6: a Dispute, Resolve or Chargeback whose tx id is not in the history is
\* a no-op: every account and the history are the same before and after, and
\* the run goes on.
C6_UnknownTxNoOp ==
    [][(/\ Reads
        /\ row'.tx_type \in {"dispute", "resolve", "chargeback"}
        /\ row'.tx \notin DOMAIN txs) =>
           /\ accounts' = accounts
           /\ txs' = txs
           /\ pc' = "reading"]_vars

\* A chargeback of an unknown tx id was applied to an account that holds
\* funds, while another tx id is known.
C6_Witness ==
    /\ row.tx_type = "chargeback"
    /\ row.tx \notin DOMAIN txs
    /\ DOMAIN txs # {}
    /\ accounts[row.client].total > 0

\* C7: Amount represents every four-decimal input exactly: a deposit of the
\* decimal d (in ten-thousandths) adds exactly d / 10^4 to total, that is
\* bits * 10^4 = d * 2^14, here with both sides divided by 16.
C7_ExactDecimal ==
    row.tx_type = "deposit" =>
        LET c == row.client
        IN  (accounts[c].total - prev[c].total) * 625
              = row.dec * (2 ^ (FRAC_NBITS - 4))

\* C8: locked is monotonic: once true it stays true; only a Chargeback whose
\* tx is found in the history sets it.
C8_LockedMonotonic ==
    [][\A c \in Clients :
          /\ accounts[c].locked => accounts'[c].locked
          /\ (~accounts[c].locked /\ accounts'[c].locked) =>
                /\ Reads
                /\ row'.tx_type = "chargeback"
                /\ row'.client = c
                /\ row'.tx \in DOMAIN txs]_vars

\* A locked account has had a further chargeback applied to it.
C8_Witness ==
    /\ row.tx_type = "chargeback"
    /\ row.tx \in DOMAIN txs
    /\ prev[row.client].locked
    /\ accounts[row.client].locked

\* C9: the history is append-only and deposit-only: an id enters it only with
\* a Deposit of that id, an entry is never removed or changed, Withdrawal,
\* Dispute, Resolve and Chargeback leave it unchanged, and a dispute naming
\* the tx id of the withdrawal before it is a no-op.
C9_HistoryAppendOnly ==
    [][/\ \A t \in DOMAIN txs : t \in DOMAIN txs' /\ txs'[t] = txs[t]
       /\ \A t \in DOMAIN txs' \ DOMAIN txs :
             /\ Reads
             /\ row'.tx_type = "deposit"
             /\ row'.tx = t
       /\ (Reads /\ row'.tx_type # "deposit") => txs' = txs
       /\ (/\ Reads
           /\ row.tx_type = "withdrawal"
           /\ row'.tx_type = "dispute"
           /\ row'.tx = row.tx) => accounts' = accounts]_vars

\* An accepted withdrawal with tx id t, then a dispute naming t, on an account
\* that still holds funds.
C9_Witness ==
    /\ pattern.stage = "disputed"
    /\ pattern.of = "withdrawal"
    /\ pattern.A <= pattern.before.total
    /\ pattern.before.total > 0
    /\ accounts = prev

\* C10: at end of stream there is one output row for every client id that
\* occurs in an input row, and no row for any other client id.
C10_RowPerReferencedClient ==
    pc = "done" =>
        /\ {output[i].client : i \in 1..Len(output)} = seen
        /\ \A i, j \in 1..Len(output) :
              output[i].client = output[j].client => i = j

\* C11: a row is emitted for client c if and only if account c differs from
\* the default state (total 0, held 0, unlocked); the row carries
\* available = total - held and the account's held, total and locked; an
\* account that is all zero but locked is emitted.
C11_OutputProjection ==
    pc = "done" =>
        /\ \A c \in Clients :
              (\E i \in 1..Len(output) : output[i].client = c)
                <=> (\/ accounts[c].total # 0
                     \/ accounts[c].held # 0
                     \/ accounts[c].locked)
        /\ \A i \in 1..Len(output) :
              /\ output[i].client \in Clients
              /\ output[i].available
                   = accounts[output[i].client].total
                       - accounts[output[i].client].held
              /\ output[i].held = accounts[output[i].client].held
              /\ output[i].total = accounts[output[i].client].total
              /\ output[i].locked = accounts[output[i].client].locked

\* The output holds the row of an account that is all zero but locked.
C11_Witness ==
    /\ pc = "done"
    /\ \E i \in 1..Len(output) :
          /\ output[i].locked
          /\ output[i].total = 0
          /\ output[i].held = 0
          /\ output[i].available = 0

\* C12: the engine does not check locked: on a locked account every record
\* has the same effect on total and held as on the same account unlocked.
C12_LockedPassThrough ==
    (row.tx_type # "none" /\ prev[row.client].locked) =>
        LET c == row.client
            unlocked == [prev EXCEPT ![c].locked = FALSE]
            expected == process_transaction(unlocked, Transaction(row), txs)[c]
        IN  /\ accounts[c].total = expected.total
            /\ accounts[c].held = expected.held

\* A deposit has raised the total of a locked account.
C12_Witness ==
    /\ row.tx_type = "deposit"
    /\ prev[row.client].locked
    /\ accounts[row.client].total
         = prev[row.client].total + Transaction(row).amount

\* C13: no open dispute is tracked: a Resolve or Chargeback of a deposited tx
\* t (amount A) mutates the account without a Dispute of t before it, and
\* every further Resolve(t) subtracts A from held again.
C13_NoDisputeTracking ==
    [][/\ (/\ Reads
           /\ row.tx_type = "deposit"
           /\ row'.tx_type \in {"resolve", "chargeback"}
           /\ row'.client = row.client
           /\ row'.tx = row.tx) =>
              /\ accounts'[row.client] # accounts[row.client]
              /\ accounts'[row.client].held
                   = accounts[row.client].held - Transaction(row).amount
       /\ (/\ Reads
           /\ pattern.stage = "resolve"
           /\ pattern.of = "deposit"
           /\ row'.tx_type = "resolve"
           /\ row'.client = row.client
           /\ row'.tx = row.tx) =>
              accounts'[row.client].held
                = accounts[row.client].held - pattern.A]_vars

\* C14: negative balances are accepted: after Deposit(t, A) and an accepted
\* Withdrawal of W, 0 < W <= A, a Chargeback of t on the same client is
\* applied: total drops by A (to -W when it was 0 before the deposit) and
\* the account is locked.
C14_NegativeBalance ==
    [][(/\ Reads
        /\ pattern.stage = "withdrawn"
        /\ row'.tx_type = "chargeback"
        /\ row'.client = row.client
        /\ row'.tx = pattern.tx) =>
           /\ accounts'[row.client].total
                = accounts[row.client].total - pattern.A
           /\ accounts'[row.client].locked
           /\ pattern.before.total = 0 =>
                 /\ accounts'[row.client].total = 0 - pattern.W
                 /\ accounts'[row.client].total < 0]_vars

\* C15: from the empty engine the input deposit(1, 1, 10.0),
\* deposit(2, 2, 20.0), withdrawal(1, 3, 5.0) yields exactly two rows:
\* client 1 with available 5.0, held 0, total 5.0, unlocked, and client 2
\* with available 20.0, held 0, total 20.0, unlocked.
C15_EndToEnd ==
    (pc = "done" /\ tracked.c15 = Len(C15_Scenario) /\ txs = <<>>) =>
        output =
          <<[client |-> 1, available |-> 5 * (2 ^ FRAC_NBITS), held |-> 0,
             total |-> 5 * (2 ^ FRAC_NBITS), locked |-> FALSE],
            [client |-> 2, available |-> 20 * (2 ^ FRAC_NBITS), held |-> 0,
             total |-> 20 * (2 ^ FRAC_NBITS), locked |-> FALSE]>>

\* The three rows of the scenario have been read and the output written.
C15_Witness ==
    /\ pc = "done"
    /\ tracked.c15 = Len(C15_Scenario)
    /\ nread = Len(C15_Scenario)
    /\ txs = <<>>
    /\ Len(output) = 2

\* C16: output rows are in strictly ascending client-id order, each client id
\* at most once, whatever the order of the clients in the input.
C16_AscendingOutput ==
    pc = "done" =>
        \A i, j \in 1..Len(output) :
            i < j => output[i].client < output[j].client

\* The input named client 2 before client 1 and both rows were written.
C16_Witness ==
    /\ pc = "done"
    /\ tracked.c16 = Len(C16_Scenario)
    /\ Len(output) = 2
    /\ output[1].client = 1
    /\ output[2].client = 2

\* C17: applying a record changes at most the account of the record's
\* client: total, held and locked of every other account are unchanged.
C17_Frame ==
    [][Reads =>
          \A c \in Clients \ {row'.client} :
              /\ accounts'[c].total = accounts[c].total
              /\ accounts'[c].held = accounts[c].held
              /\ accounts'[c].locked = accounts[c].locked]_vars

\* A record has changed the account of its client while another account is
\* in use.
C17_Witness ==
    /\ row.tx_type # "none"
    /\ accounts[row.client] # prev[row.client]
    /\ \E c \in Clients \ {row.client} :
          /\ ~unused(accounts[c])
          /\ accounts[c] = prev[c]

\* C18: the amount of a Dispute, Resolve or Chargeback is looked up by tx id
\* alone and applied to the record's own client: a record of client c2
\* naming a tx deposited by another client c1 (amount A) mutates c2's
\* account and leaves c1's unchanged.
C18_CrossClient ==
    [][(/\ Reads
        /\ row.tx_type = "deposit"
        /\ row'.tx_type \in {"dispute", "resolve", "chargeback"}
        /\ row'.tx = row.tx
        /\ row'.client # row.client) =>
           /\ accounts'[row.client] = accounts[row.client]
           /\ accounts'[row'.client] # accounts[row'.client]
           /\ row'.tx_type = "dispute" =>
                 accounts'[row'.client].held
                   = accounts[row'.client].held + Transaction(row).amount]_vars

\* Every account has total >= 0, held = 0 and is unlocked.
Clean(accts) ==
    \A c \in Clients :
        accts[c].total >= 0 /\ accts[c].held = 0 /\ ~accts[c].locked

\* C19: with non-negative amounts, an accepted Withdrawal of W leaves
\* available() = available() before - W >= 0, and Deposit and Withdrawal
\* records keep every account at total >= 0, held = 0, unlocked, which is how
\* the engine starts.
C19_NonNegative ==
    /\ nread = 0 => Clean(accounts)
    /\ [][(Reads /\ row'.tx_type \in {"deposit", "withdrawal"}) =>
             /\ (/\ row'.tx_type = "withdrawal"
                 /\ accounts'[row'.client] # accounts[row'.client]) =>
                    /\ available(accounts'[row'.client])
                         = available(accounts[row'.client])
                             - Transaction(row').amount
                    /\ available(accounts'[row'.client]) >= 0
             /\ Clean(accounts) => Clean(accounts')]_vars

\* A withdrawal was accepted on an account whose held is not zero and took
\* all that was available.
C19_Witness ==
    /\ row.tx_type = "withdrawal"
    /\ prev[row.client].held # 0
    /\ accounts[row.client].total < prev[row.client].total
    /\ available(accounts[row.client]) = 0

\* C20: the account table is created with exactly 2^16 default entries and
\* never resized, so the index of every 16-bit client id is in bounds, and
\* every index of the table converts back to a 16-bit client id.
C20_TableBounds ==
    /\ EngineNew.len = 65536
    /\ DOMAIN accounts = Clients
    /\ Clients \subseteq ClientIds
    /\ nread = 0 => \A c \in Clients : accounts[c] = DefaultAccount
    /\ pc = "probed" =>
          /\ probe.is_client => probe.in_bounds
          /\ probe.in_bounds => probe.back = <<probe.index>>
    /\ pc = "done" =>
          \A i \in 1..Len(output) :
              try_into_u16(output[i].client) = <<output[i].client>>

\* The largest client id, 65535, has been looked up in the table.
C20_Witness ==
    /\ pc = "probed"
    /\ probe.index = 65535
    /\ probe.is_client
    /\ probe.in_bounds
    /\ probe.back = <<65535>>

====
